---- MODULE Spec2Model ----
(***************************************************************************)
(* A model of the smaps poller's two library entry points (src/src/lib.rs): *)
(*   get_processes  - enumerate /proc, link the process tree, select nodes  *)
(*   get_smaps      - classify every selected process's mapping table       *)
(* together with filter_errors, the error policy both consult, and the Add  *)
(* implementation that combines two MemoryExt values.                       *)
(*                                                                          *)
(* Sequences are 1-based here where the Rust vectors are 0-based; an index  *)
(* stored in `children` or `matched` is the Rust index plus one.            *)
(***************************************************************************)
EXTENDS Integers, Sequences, FiniteSets, TLC

VARIABLES
    cfg,         \* the arguments of the call: regex, match_children, match_self, fail_on_noperm
    snapshot,    \* the live process table all_processes() iterates over, in /proc order
    pc,          \* where the call stands
    pos,         \* position of the all_processes() iterator (get_processes), of
                 \* processes.into_iter() (get_smaps), or of the listing being totalled
    proc_tree,   \* Vec<ProcNode> collected so far
    nodes,       \* the Vec<ProcNode> get_processes returned / get_smaps was given
    outcome,     \* "Running", "Ok" (Ok(..) returned), "Err" (Err(e) returned), "Panic"
    warnings,    \* number of warn!() records logged so far
    reads,       \* log of the per-process reads: what was read and what filter_errors answered
    exe,         \* get_smaps: the executable path of the process being classified
    map,         \* get_smaps: the loop variable of `for map in maps`
    memory_ext,  \* get_smaps: the MemoryExt being accumulated
    listings,    \* get_smaps: the ProcListings produced so far
    nmaps,       \* mapping records read in this cycle
    resolved,    \* per listing (last entry: the process in progress): the PSS resolved
                 \* for its categorized mappings, and the file-backed part of it
    total        \* the MemoryExt obtained by adding up the listings

vars == <<cfg, snapshot, pc, pos, proc_tree, nodes, outcome, warnings, reads,
          exe, map, memory_ext, listings, nmaps, resolved, total>>

smaps_vars == <<exe, map, memory_ext, listings, nmaps, resolved, total>>

(***************************************************************************)
(* Bounds of the model.                                                     *)
(***************************************************************************)
MaxProcs == 3          \* processes in one /proc snapshot
MaxRecords == 3        \* records one get_smaps call reads: its nodes plus their mappings
MaxPss == 1            \* largest Pss / Rss value of a mapping

(***************************************************************************)
(* The environment.                                                         *)
(***************************************************************************)
\* std::process::id() of the poller itself
Me == 2

Cmdlines == {"sh", "db"}

\* Option<Regex>: None, or a pattern; the patterns here are anchored literals
NoRegex == "None"
Regexes == {NoRegex, "db"}

is_match(regex, cmdline) == regex = cmdline

\* ProcResult<T> as seen by filter_errors: Ok(_) or one ProcError variant.
\* NotFound carries Option<PathBuf>; "Other" stands for Io, InternalError, Incomplete.
Errors == {"PermissionDenied", "NotFoundSome", "NotFoundNone", "Other"}
Results == {"Ok"} \cup Errors

\* Follows parent pids from p; TRUE when the chain ends at the root sentinel 0.
RECURSIVE ReachesRoot(_, _, _)
ReachesRoot(ppidOf, p, fuel) ==
    IF p = 0 THEN TRUE
    ELSE IF fuel = 0 THEN FALSE
    ELSE ReachesRoot(ppidOf, ppidOf[p], fuel - 1)

\* A process table: pids 1..k listed in ascending order (the order of /proc),
\* every parent alive, no process its own ancestor.
Snapshots ==
    UNION { { [i \in 1..k |-> [pid |-> i, ppid |-> ppidOf[i]]] :
                ppidOf \in { f \in [1..k -> 0..k] :
                               \A p \in 1..k : ReachesRoot(f, p, k) } } :
            k \in 2..MaxProcs }

(***************************************************************************)
(* filter_errors                                                            *)
(***************************************************************************)
\* Option<ProcResult<T>>: opt = "Some" carries the result on unchanged.
filter_errors(result, fail_on_noperm) ==
    IF result = "PermissionDenied"
    THEN IF fail_on_noperm
         THEN [opt |-> "Some", result |-> result, warned |-> FALSE]
         ELSE [opt |-> "None", result |-> result, warned |-> FALSE]
    ELSE IF result = "NotFoundSome"
    THEN [opt |-> "None", result |-> result, warned |-> TRUE]
    ELSE [opt |-> "Some", result |-> result, warned |-> FALSE]

(***************************************************************************)
(* MemoryExt and its Add                                                    *)
(***************************************************************************)
Scalars == {"stack_pss", "heap_pss", "thread_stack_pss", "bin_text_pss", "lib_text_pss",
            "bin_data_pss", "lib_data_pss", "anon_map_pss", "vdso_pss", "vvar_pss",
            "vsyscall_pss", "vsys_pss"}

\* a HashMap is the function from the keys it holds to their values
EmptyMap == [k \in {} |-> 0]

\* MemoryExt::new(), i.e. MemoryExt::default()
MemoryExt_new ==
    [stack_pss |-> 0, heap_pss |-> 0, thread_stack_pss |-> 0, file_map |-> EmptyMap,
     bin_text_pss |-> 0, lib_text_pss |-> 0, bin_data_pss |-> 0, lib_data_pss |-> 0,
     anon_map_pss |-> 0, vdso_pss |-> 0, vvar_pss |-> 0, vsyscall_pss |-> 0,
     vsys_pss |-> 0, other_map |-> EmptyMap]

\* for (k, v) in rhs { *lhs.entry(k).or_default() += v }
add_maps(lhs, rhs) ==
    [k \in DOMAIN lhs \cup DOMAIN rhs |->
        IF k \in DOMAIN rhs
        THEN (IF k \in DOMAIN lhs THEN lhs[k] ELSE 0) + rhs[k]
        ELSE lhs[k]]

\* impl Add<&MemoryExt> for MemoryExt, field by field as written
Add(self, rhs) ==
    [stack_pss |-> self.stack_pss + rhs.stack_pss,
     heap_pss |-> self.heap_pss + rhs.heap_pss,
     thread_stack_pss |-> self.thread_stack_pss + rhs.thread_stack_pss,
     file_map |-> add_maps(self.file_map, rhs.file_map),
     bin_text_pss |-> self.bin_text_pss + rhs.bin_text_pss,
     lib_text_pss |-> self.lib_text_pss + rhs.lib_text_pss,
     bin_data_pss |-> self.bin_data_pss + rhs.bin_data_pss,
     lib_data_pss |-> self.lib_data_pss + rhs.lib_data_pss,
     anon_map_pss |-> self.anon_map_pss + rhs.anon_map_pss,
     vdso_pss |-> self.vdso_pss + rhs.vdso_pss,
     vvar_pss |-> self.vvar_pss + rhs.vvar_pss,
     vsyscall_pss |-> self.vsyscall_pss + rhs.vvar_pss,
     vsys_pss |-> self.vsys_pss + rhs.vsys_pss,
     other_map |-> add_maps(self.other_map, rhs.other_map)]

(***************************************************************************)
(* Mapping records                                                          *)
(***************************************************************************)
NoPath == ""
\* what process.exe() answers, and the files a process maps
ExePath == "/bin/app"
Paths == {ExePath, "/lib/libc.so"}
Labels == {"[uprobes]"}

\* MMPermissions, as the set of the flags that are set
Perms == {{"r"}, {"r", "x"}}
EXECUTE == "x"

\* the MMapPath variants get_smaps names, and "Unknown" for any variant it
\* does not name (the `_` arm)
PlainTags == {"Heap", "Stack", "TStack", "Anonymous", "Vdso", "Vvar", "Vsyscall", "Vsys"}

\* map.extension.map restricted to the two keys read: a key is present or not,
\* and the kernel never reports Pss above Rss
Extensions ==
    { e \in UNION { [D -> 0..MaxPss] : D \in SUBSET {"Pss", "Rss"} } :
        DOMAIN e = {"Pss", "Rss"} => e["Pss"] <= e["Rss"] }

Mappings ==
    { [pathname |-> "Path", name |-> p, perms |-> pm, extension |-> e] :
        p \in Paths, pm \in Perms, e \in Extensions }
    \cup { [pathname |-> t, name |-> NoPath, perms |-> {"r"}, extension |-> e] :
        t \in PlainTags \cup {"Unknown"}, e \in Extensions }
    \cup { [pathname |-> "Other", name |-> l, perms |-> {"r"}, extension |-> e] :
        l \in Labels, e \in Extensions }

\* the value of `map` outside the loop
NoMap == [pathname |-> "None", name |-> NoPath, perms |-> {}, extension |-> EmptyMap]

(***************************************************************************)
(* get_smaps                                                                *)
(***************************************************************************)
\* get_pss_or_warn taking a non-zero Rss for the missing Pss instead of panicking
get_pss_or_warn_rss_fallback(m) ==
    IF "Pss" \in DOMAIN m.extension
    THEN [pss |-> m.extension["Pss"], warned |-> FALSE, panic |-> FALSE]
    ELSE IF "Rss" \in DOMAIN m.extension
    THEN [pss |-> m.extension["Rss"], warned |-> m.extension["Rss"] = 0, panic |-> FALSE]
    ELSE [pss |-> 0, warned |-> TRUE, panic |-> FALSE]

\* the closure get_pss_or_warn: the value, whether it warned, whether it panicked
get_pss_or_warn(m) ==
    IF "Pss" \in DOMAIN m.extension
    THEN [pss |-> m.extension["Pss"], warned |-> FALSE, panic |-> FALSE]
    ELSE IF "Rss" \in DOMAIN m.extension
    THEN IF m.extension["Rss"] = 0
         THEN [pss |-> 0, warned |-> TRUE, panic |-> FALSE]
         ELSE [pss |-> 0, warned |-> FALSE, panic |-> TRUE]
    ELSE [pss |-> 0, warned |-> TRUE, panic |-> FALSE]

\* the entry update storing pss in place of the sum: map.insert(key, pss)
entry_insert(hash_map, key, pss) ==
    [k \in DOMAIN hash_map \cup {key} |-> IF k = key THEN pss ELSE hash_map[k]]

\* *map.entry(key).or_default() += pss
entry_add(hash_map, key, pss) ==
    [k \in DOMAIN hash_map \cup {key} |->
        IF k = key
        THEN (IF key \in DOMAIN hash_map THEN hash_map[key] ELSE 0) + pss
        ELSE hash_map[k]]

\* the choice of the field without the comparison with the executable's path
bin_lib_field_ignoring_exe(is_self, is_x) ==
    IF is_x THEN "lib_text_pss" ELSE "lib_data_pss"

\* the field chosen by `match (is_self, is_x)`
bin_lib_field(is_self, is_x) ==
    IF is_self THEN (IF is_x THEN "bin_text_pss" ELSE "bin_data_pss")
    ELSE (IF is_x THEN "lib_text_pss" ELSE "lib_data_pss")

\* the scalar a plain tag accumulates into
plain_field(tag) ==
    CASE tag = "Heap" -> "heap_pss"
      [] tag = "Stack" -> "stack_pss"
      [] tag = "TStack" -> "thread_stack_pss"
      [] tag = "Anonymous" -> "anon_map_pss"
      [] tag = "Vdso" -> "vdso_pss"
      [] tag = "Vvar" -> "vvar_pss"
      [] tag = "Vsyscall" -> "vsyscall_pss"
      [] tag = "Vsys" -> "vsys_pss"

\* the Path(pathbuf) arm without the bin/lib bucket: file_map alone
classify_path_file_map_only(ext, m, exe_path, pss) ==
    [ext EXCEPT !.file_map = entry_add(@, <<m.name, m.perms>>, pss)]

\* the Path(pathbuf) arm, given the resolved pss
classify_path(ext, m, exe_path, pss) ==
    LET with_file == [ext EXCEPT !.file_map = entry_add(@, <<m.name, m.perms>>, pss)]
        is_self == exe_path = m.name
        is_x == EXECUTE \in m.perms
    IN  [with_file EXCEPT ![bin_lib_field(is_self, is_x)] = @ + pss]

\* the loop body with the `_` arm deciding by get_pss_or_warn, as the named arms
\* do, instead of by Rss alone
classify_map_unknown_by_pss(ext, m, exe_path) ==
    LET got == get_pss_or_warn(m)
        w == IF got.warned THEN 1 ELSE 0
    IN  IF got.panic
        THEN [ext |-> ext, warned |-> 0, panic |-> TRUE, pss |-> 0, categorized |-> FALSE]
        ELSE IF m.pathname = "Unknown"
        THEN [ext |-> ext, warned |-> 1, panic |-> FALSE, pss |-> 0, categorized |-> FALSE]
        ELSE IF m.pathname = "Path"
        THEN [ext |-> classify_path(ext, m, exe_path, got.pss), warned |-> w,
              panic |-> FALSE, pss |-> got.pss, categorized |-> TRUE]
        ELSE IF m.pathname = "Other"
        THEN [ext |-> [ext EXCEPT !.other_map = entry_add(@, m.name, got.pss)],
              warned |-> w, panic |-> FALSE, pss |-> got.pss, categorized |-> TRUE]
        ELSE [ext |-> [ext EXCEPT ![plain_field(m.pathname)] = @ + got.pss],
              warned |-> w, panic |-> FALSE, pss |-> got.pss, categorized |-> TRUE]

\* the body of `for map in maps`: the MemoryExt after it, the warnings it logged,
\* whether it panicked, and the PSS it resolved (pss) for a categorized mapping
classify_map(ext, m, exe_path) ==
    IF m.pathname = "Unknown"
    THEN IF "Rss" \notin DOMAIN m.extension
         THEN [ext |-> ext, warned |-> 1, panic |-> FALSE, pss |-> 0, categorized |-> FALSE]
         ELSE IF m.extension["Rss"] = 0
         THEN [ext |-> ext, warned |-> 1, panic |-> FALSE, pss |-> 0, categorized |-> FALSE]
         ELSE [ext |-> ext, warned |-> 0, panic |-> TRUE, pss |-> 0, categorized |-> FALSE]
    ELSE LET got == get_pss_or_warn(m)
             w == IF got.warned THEN 1 ELSE 0
         IN  IF got.panic
             THEN [ext |-> ext, warned |-> 0, panic |-> TRUE, pss |-> 0, categorized |-> FALSE]
             ELSE IF m.pathname = "Path"
             THEN [ext |-> classify_path(ext, m, exe_path, got.pss), warned |-> w,
                   panic |-> FALSE, pss |-> got.pss, categorized |-> TRUE]
             ELSE IF m.pathname = "Other"
             THEN [ext |-> [ext EXCEPT !.other_map = entry_add(@, m.name, got.pss)],
                   warned |-> w, panic |-> FALSE, pss |-> got.pss, categorized |-> TRUE]
             ELSE [ext |-> [ext EXCEPT ![plain_field(m.pathname)] = @ + got.pss],
                   warned |-> w, panic |-> FALSE, pss |-> got.pss, categorized |-> TRUE]

ProcListing(proc_node, ext) ==
    [pid |-> proc_node.pid, ppid |-> proc_node.ppid, cmdline |-> proc_node.cmdline,
     memory_ext |-> ext]

(***************************************************************************)
(* get_processes                                                            *)
(***************************************************************************)
\* try_from_process without the check for the poller's own pid
try_from_process_keep_self(proc_result, stat, cmdline, pid, convert_self) ==
    IF proc_result # "Ok" THEN proc_result
    ELSE IF stat # "Ok" THEN stat
    ELSE cmdline

\* ProcNode::try_from_process behind proc_result.and_then(..): the first read
\* that fails decides; "Self" is Ok(None), the poller's own process left out.
try_from_process(proc_result, stat, cmdline, pid, convert_self) ==
    IF proc_result # "Ok" THEN proc_result
    ELSE IF stat # "Ok" THEN stat
    ELSE IF ~convert_self /\ pid = Me THEN "Self"
    ELSE cmdline

ProcNode(pid, ppid, cmdline) ==
    [pid |-> pid, ppid |-> ppid, cmdline |-> cmdline, children |-> <<>>]

\* HashMap::from_iter over (pid, index) pairs: a later pair replaces an earlier one
proc_map(tree) ==
    [p \in {tree[k].pid : k \in DOMAIN tree} |->
        CHOOSE k \in DOMAIN tree :
            /\ tree[k].pid = p
            /\ \A k2 \in DOMAIN tree : tree[k2].pid = p => k2 <= k]

\* the linking loop leaving a node whose parent is missing unlinked
RECURSIVE link_skip_missing(_, _)
link_skip_missing(tree, idx) ==
    IF idx > Len(tree) THEN [ok |-> TRUE, tree |-> tree]
    ELSE LET proc_node == tree[idx] IN
         IF proc_node.ppid # 0 /\ proc_node.ppid \in DOMAIN proc_map(tree)
         THEN LET parent_idx == proc_map(tree)[proc_node.ppid] IN
              link_skip_missing([tree EXCEPT ![parent_idx].children = Append(@, idx)],
                                idx + 1)
         ELSE link_skip_missing(tree, idx + 1)

\* the linking loop recording a child only for a parent that has none yet
RECURSIVE link_first_child_only(_, _)
link_first_child_only(tree, idx) ==
    IF idx > Len(tree) THEN [ok |-> TRUE, tree |-> tree]
    ELSE LET proc_node == tree[idx] IN
         IF proc_node.ppid # 0
         THEN IF proc_node.ppid \notin DOMAIN proc_map(tree)
              THEN [ok |-> FALSE, tree |-> tree]
              ELSE LET parent_idx == proc_map(tree)[proc_node.ppid] IN
                   IF tree[parent_idx].children = <<>>
                   THEN link_first_child_only(
                            [tree EXCEPT ![parent_idx].children = Append(@, idx)], idx + 1)
                   ELSE link_first_child_only(tree, idx + 1)
         ELSE link_first_child_only(tree, idx + 1)

\* the linking loop `for idx in 0..proc_tree.len()`; ok = FALSE is the panic
RECURSIVE link(_, _)
link(tree, idx) ==
    IF idx > Len(tree) THEN [ok |-> TRUE, tree |-> tree]
    ELSE LET proc_node == tree[idx] IN
         IF proc_node.ppid # 0
         THEN IF proc_node.ppid \notin DOMAIN proc_map(tree)
              THEN [ok |-> FALSE, tree |-> tree]
              ELSE LET parent_idx == proc_map(tree)[proc_node.ppid] IN
                   link([tree EXCEPT ![parent_idx].children = Append(@, idx)], idx + 1)
         ELSE link(tree, idx + 1)

\* add_process_recursive stopping at the children
add_process_children_only(matched, tree, proc_idx) ==
    matched \cup {proc_idx}
            \cup {tree[proc_idx].children[k] : k \in DOMAIN tree[proc_idx].children}

RECURSIVE add_process_recursive(_, _, _)
RECURSIVE add_children(_, _, _, _)
add_children(matched, tree, children, k) ==
    IF k > Len(children) THEN matched
    ELSE add_children(add_process_recursive(matched, tree, children[k]), tree, children, k + 1)

add_process_recursive(matched, tree, proc_idx) ==
    add_children(matched \cup {proc_idx}, tree, tree[proc_idx].children, 1)

\* the matching loop over proc_tree.iter().enumerate()
RECURSIVE match_all(_, _, _, _, _)
match_all(matched, tree, regex, match_children, proc_idx) ==
    IF proc_idx > Len(tree) THEN matched
    ELSE IF is_match(regex, tree[proc_idx].cmdline)
         THEN IF match_children
              THEN match_all(add_process_recursive(matched, tree, proc_idx),
                             tree, regex, match_children, proc_idx + 1)
              ELSE match_all(matched \cup {proc_idx}, tree, regex, match_children, proc_idx + 1)
         ELSE match_all(matched, tree, regex, match_children, proc_idx + 1)

\* proc_tree.into_iter().enumerate().filter_map(..).collect()
RECURSIVE retain(_, _, _)
retain(tree, matched, process_idx) ==
    IF process_idx > Len(tree) THEN <<>>
    ELSE IF process_idx \in matched
         THEN <<tree[process_idx]>> \o retain(tree, matched, process_idx + 1)
         ELSE retain(tree, matched, process_idx + 1)

Init ==
    /\ cfg \in [regex : Regexes, match_children : BOOLEAN,
                match_self : BOOLEAN, fail_on_noperm : BOOLEAN]
    /\ snapshot \in Snapshots
    /\ pc = "all_processes"
    /\ pos = 1
    /\ proc_tree = <<>>
    /\ nodes = <<>>
    /\ outcome = "Running"
    /\ warnings = 0
    /\ reads = <<>>
    /\ exe = NoPath
    /\ map = NoMap
    /\ memory_ext = MemoryExt_new
    /\ listings = <<>>
    /\ nmaps = 0
    /\ resolved = <<>>
    /\ total = MemoryExt_new

\* process::all_processes()? : the listing itself may fail, which ends the call
AllProcesses ==
    /\ pc = "all_processes"
    /\ \E listing \in Results :
         IF listing = "Ok"
         THEN /\ pc' = "enumerate"
              /\ outcome' = outcome
         ELSE /\ pc' = "done"
              /\ outcome' = "Err"
    /\ UNCHANGED <<cfg, snapshot, pos, proc_tree, nodes, warnings, reads>>
    /\ UNCHANGED smaps_vars

\* one item of the filter_map over all_processes, and the collect() that
\* stops at the first Err
Enumerate ==
    /\ pc = "enumerate"
    /\ pos <= Len(snapshot)
    /\ \E result \in { try_from_process(proc_result, stat, cmdline_read,
                                         snapshot[pos].pid, cfg.match_self) :
                            proc_result \in Results, stat \in Results,
                            cmdline_read \in Results },
          cmdline \in Cmdlines :
         LET process == snapshot[pos]
         IN  IF result = "Self"
             THEN /\ reads' = Append(reads, [pid |-> process.pid, what |-> "stat", result |-> "Self",
                                             opt |-> "None", warned |-> FALSE])
                  /\ UNCHANGED <<proc_tree, warnings, outcome, pc>>
             ELSE LET filtered == filter_errors(result, cfg.fail_on_noperm) IN
                  /\ reads' = Append(reads, [pid |-> process.pid, what |-> "stat", result |-> result,
                                             opt |-> filtered.opt, warned |-> filtered.warned])
                  /\ warnings' = IF filtered.warned THEN warnings + 1 ELSE warnings
                  /\ IF filtered.opt = "None"
                     THEN UNCHANGED <<proc_tree, outcome, pc>>
                     ELSE IF filtered.result = "Ok"
                     THEN /\ proc_tree' = Append(proc_tree,
                                 ProcNode(process.pid, process.ppid, cmdline))
                          /\ UNCHANGED <<outcome, pc>>
                     ELSE /\ outcome' = "Err"
                          /\ pc' = "done"
                          /\ UNCHANGED proc_tree
    /\ pos' = pos + 1
    /\ UNCHANGED <<cfg, snapshot, nodes>>
    /\ UNCHANGED smaps_vars

\* the rest of get_processes once the collect() succeeded: the early return
\* without a regex, else linking, matching and the final filter
Select ==
    /\ pc = "enumerate"
    /\ pos > Len(snapshot)
    /\ pc' = "done"
    /\ IF cfg.regex = NoRegex
       THEN /\ nodes' = proc_tree
            /\ outcome' = "Ok"
            /\ UNCHANGED proc_tree
       ELSE LET linked == link(proc_tree, 1) IN
            IF ~linked.ok
            THEN /\ outcome' = "Panic"
                 /\ UNCHANGED <<proc_tree, nodes>>
            ELSE LET matched == match_all({}, linked.tree, cfg.regex, cfg.match_children, 1) IN
                 /\ proc_tree' = linked.tree
                 /\ nodes' = retain(linked.tree, matched, 1)
                 /\ outcome' = "Ok"
    /\ UNCHANGED <<cfg, snapshot, pos, warnings, reads>>
    /\ UNCHANGED smaps_vars

\* What get_smaps is handed: a node list get_processes can return.
NodeLists ==
    { [i \in 1..k |-> [pid |-> i, ppid |-> i - 1, cmdline |-> "sh", children |-> <<>>]] :
        k \in 1..MaxRecords }

SmapsInit ==
    /\ cfg \in [regex : {NoRegex}, match_children : {FALSE},
                match_self : {TRUE}, fail_on_noperm : BOOLEAN]
    /\ snapshot = <<>>
    /\ pc = "smaps"
    /\ pos = 1
    /\ proc_tree = <<>>
    /\ nodes \in NodeLists
    /\ outcome = "Running"
    /\ warnings = 0
    /\ reads = <<>>
    /\ exe = NoPath
    /\ map = NoMap
    /\ memory_ext = MemoryExt_new
    /\ listings = <<>>
    /\ nmaps = 0
    /\ resolved = <<>>
    /\ total = MemoryExt_new

ReadEntry(pid, what, filtered) ==
    [pid |-> pid, what |-> what, result |-> filtered.result,
     opt |-> filtered.opt, warned |-> filtered.warned]

\* the head of the filter_map closure: process.smaps() and process.exe(), each
\* through filter_errors; None drops the process, Some(Err) ends the collect()
ReadProcess ==
    /\ pc = "smaps"
    /\ pos <= Len(nodes)
    /\ \E smaps \in Results, exe_read \in Results :
         LET pid == nodes[pos].pid
             maps_result == filter_errors(smaps, cfg.fail_on_noperm)
             exe_result == filter_errors(exe_read, cfg.fail_on_noperm)
             first == ReadEntry(pid, "smaps", maps_result)
             second == ReadEntry(pid, "exe", exe_result)
         IN  IF maps_result.opt = "None"
             THEN /\ reads' = Append(reads, first)
                  /\ warnings' = warnings + (IF maps_result.warned THEN 1 ELSE 0)
                  /\ pos' = pos + 1
                  /\ UNCHANGED <<pc, outcome, exe, memory_ext, resolved>>
             ELSE IF maps_result.result # "Ok"
             THEN /\ reads' = Append(reads, first)
                  /\ outcome' = "Err"
                  /\ pc' = "done"
                  /\ UNCHANGED <<pos, warnings, exe, memory_ext, resolved>>
             ELSE IF exe_result.opt = "None"
             THEN /\ reads' = reads \o <<first, second>>
                  /\ warnings' = warnings + (IF exe_result.warned THEN 1 ELSE 0)
                  /\ pos' = pos + 1
                  /\ UNCHANGED <<pc, outcome, exe, memory_ext, resolved>>
             ELSE IF exe_result.result # "Ok"
             THEN /\ reads' = reads \o <<first, second>>
                  /\ outcome' = "Err"
                  /\ pc' = "done"
                  /\ UNCHANGED <<pos, warnings, exe, memory_ext, resolved>>
             ELSE /\ reads' = reads \o <<first, second>>
                  /\ exe' = ExePath
                  /\ memory_ext' = MemoryExt_new
                  /\ resolved' = Append(resolved, [all |-> 0, file |-> 0])
                  /\ pc' = "maps"
                  /\ UNCHANGED <<pos, warnings, outcome>>
    /\ map' = NoMap
    /\ UNCHANGED <<cfg, snapshot, proc_tree, nodes, listings, nmaps, total>>

\* one iteration of `for map in maps`
ClassifyMap ==
    /\ pc = "maps"
    /\ Len(nodes) + nmaps < MaxRecords
    /\ \E m \in Mappings :
         LET done == classify_map(memory_ext, m, exe)
             last == Len(resolved)
         IN  /\ map' = m
             /\ IF done.panic
                THEN /\ outcome' = "Panic"
                     /\ pc' = "done"
                     /\ UNCHANGED <<memory_ext, warnings, resolved>>
                ELSE /\ memory_ext' = done.ext
                     /\ warnings' = warnings + done.warned
                     /\ resolved' = IF done.categorized
                                    THEN [resolved EXCEPT
                                            ![last].all = @ + done.pss,
                                            ![last].file = @ + (IF m.pathname = "Path"
                                                                THEN done.pss ELSE 0)]
                                    ELSE resolved
                     /\ UNCHANGED <<outcome, pc>>
    /\ nmaps' = nmaps + 1
    /\ UNCHANGED <<cfg, snapshot, pos, proc_tree, nodes, reads, exe, listings, total>>

\* the table is exhausted: Some(Ok(ProcListing {..}))
EndMaps ==
    /\ pc = "maps"
    /\ listings' = Append(listings, ProcListing(nodes[pos], memory_ext))
    /\ pos' = pos + 1
    /\ pc' = "smaps"
    /\ map' = NoMap
    /\ exe' = NoPath
    /\ memory_ext' = MemoryExt_new
    /\ UNCHANGED <<cfg, snapshot, proc_tree, nodes, outcome, warnings, reads,
                   nmaps, resolved, total>>

\* collect() ran to the end of the input: Ok(listings)
Collect ==
    /\ pc = "smaps"
    /\ pos > Len(nodes)
    /\ outcome' = "Ok"
    /\ pc' = "total"
    /\ pos' = 1
    /\ UNCHANGED <<cfg, snapshot, proc_tree, nodes, warnings, reads,
                   exe, map, memory_ext, listings, nmaps, resolved, total>>

\* totalling the listings: total = total + &listing.memory_ext
Accumulate ==
    /\ pc = "total"
    /\ pos <= Len(listings)
    /\ total' = Add(total, listings[pos].memory_ext)
    /\ pos' = pos + 1
    /\ UNCHANGED <<cfg, snapshot, pc, proc_tree, nodes, outcome, warnings, reads,
                   exe, map, memory_ext, listings, nmaps, resolved>>

SmapsNext == ReadProcess \/ ClassifyMap \/ EndMaps \/ Collect \/ Accumulate

SpecSmaps == SmapsInit /\ [][SmapsNext]_vars

Next == AllProcesses \/ Enumerate \/ Select

Spec == Init /\ [][Next]_vars

(***************************************************************************)
(* Helpers of the properties                                                *)
(***************************************************************************)
RECURSIVE SumValues(_)
SumValues(f) ==
    IF DOMAIN f = {} THEN 0
    ELSE LET k == CHOOSE k \in DOMAIN f : TRUE
         IN  f[k] + SumValues([j \in DOMAIN f \ {k} |-> f[j]])

ScalarSum(ext) == SumValues([f \in Scalars |-> ext[f]])

ValueAt(hash_map, key) == IF key \in DOMAIN hash_map THEN hash_map[key] ELSE 0

PidsOf(seq) == {seq[k].pid : k \in DOMAIN seq}

\* the MemoryExt values being added up: the running total and the listings'
Operands == {total} \cup {listings[k].memory_ext : k \in DOMAIN listings}

(***************************************************************************)
(* C1. filter_errors follows the policy table for every read result and    *)
(* both values of fail_on_noperm: permission-denied is fatal when the flag *)
(* is set and dropped without a warning when it is not; not-found, with or *)
(* without a path, is dropped with a warning; any other failure is fatal;  *)
(* Ok passes through.                                                       *)
(***************************************************************************)
PolicyTable(result, fail_on_noperm) ==
    CASE result = "PermissionDenied" ->
            IF fail_on_noperm THEN [opt |-> "Some", warned |-> FALSE]
            ELSE [opt |-> "None", warned |-> FALSE]
      [] result \in {"NotFoundSome", "NotFoundNone"} -> [opt |-> "None", warned |-> TRUE]
      [] OTHER -> [opt |-> "Some", warned |-> FALSE]

C1_FilterFollowsPolicyTable ==
    \A k \in DOMAIN reads :
        reads[k].result # "Self" =>
            LET want == PolicyTable(reads[k].result, cfg.fail_on_noperm)
            IN  /\ reads[k].opt = want.opt
                /\ reads[k].warned = want.warned

(***************************************************************************)
(* C2. Adding two MemoryExt values gives, for each of the twelve scalars,  *)
(* the sum of that scalar in both, and for each keyed map the union of the *)
(* keys with the values summed (a missing key counting as 0).              *)
(***************************************************************************)
PointwiseSum(a, b, r) ==
    /\ \A f \in Scalars : r[f] = a[f] + b[f]
    /\ DOMAIN r.file_map = DOMAIN a.file_map \cup DOMAIN b.file_map
    /\ \A k \in DOMAIN r.file_map :
          r.file_map[k] = ValueAt(a.file_map, k) + ValueAt(b.file_map, k)
    /\ DOMAIN r.other_map = DOMAIN a.other_map \cup DOMAIN b.other_map
    /\ \A k \in DOMAIN r.other_map :
          r.other_map[k] = ValueAt(a.other_map, k) + ValueAt(b.other_map, k)

C2_AddIsPointwise ==
    [][(pc = "total" /\ pos' = pos + 1) =>
          PointwiseSum(total, listings[pos].memory_ext, total')]_vars

(***************************************************************************)
(* C3. Adding MemoryExt values is commutative and associative, on every    *)
(* scalar and on both keyed maps.                                           *)
(***************************************************************************)
C3_AddCommutativeAssociative ==
    pc = "total" =>
        \A a \in Operands, b \in Operands, c \in Operands :
            /\ Add(a, b) = Add(b, a)
            /\ Add(Add(a, b), c) = Add(a, Add(b, c))

(***************************************************************************)
(* The selection the documentation of get_processes describes, computed    *)
(* upwards along parent pids instead of downwards along `children`.        *)
(***************************************************************************)
RECURSIVE MatchesOrDescends(_, _, _)
MatchesOrDescends(tree, k, fuel) ==
    \/ is_match(cfg.regex, tree[k].cmdline)
    \/ /\ fuel > 0
       /\ tree[k].ppid # 0
       /\ \E j \in DOMAIN tree :
             /\ tree[j].pid = tree[k].ppid
             /\ MatchesOrDescends(tree, j, fuel - 1)

ShouldSelect(tree) ==
    IF cfg.regex = NoRegex THEN DOMAIN tree
    ELSE IF cfg.match_children
    THEN {k \in DOMAIN tree : MatchesOrDescends(tree, k, Len(tree))}
    ELSE {k \in DOMAIN tree : is_match(cfg.regex, tree[k].cmdline)}

IndexOf(tree, pid) == CHOOSE k \in DOMAIN tree : tree[k].pid = pid

MissingParent(tree) ==
    \E k \in DOMAIN tree : tree[k].ppid # 0 /\ tree[k].ppid \notin PidsOf(tree)

\* a read that did not fail, or failed the recoverable way: not-found, or
\* permission-denied under fail_on_noperm = false
RecoverableRead(r) ==
    \/ r.result \in {"Ok", "Self", "NotFoundSome", "NotFoundNone"}
    \/ r.result = "PermissionDenied" /\ ~cfg.fail_on_noperm

(***************************************************************************)
(* C4. A recoverable per-process read failure never aborts the cycle: when *)
(* every per-process read succeeded or failed with permission-denied under *)
(* fail_on_noperm = false or with not-found, get_processes returns Ok and  *)
(* its result holds every process that was read and selected.  Stated for  *)
(* match_self = true and for not-found errors that carry a path, so that   *)
(* what refutes it is neither the poller's own exclusion nor the not-found *)
(* error without a path that C1 is about.                                   *)
(***************************************************************************)
C4_RecoverableFailureNeverAborts ==
    (/\ pc = "done"
     /\ reads # <<>>
     /\ cfg.match_self
     /\ \A k \in DOMAIN reads :
           RecoverableRead(reads[k]) /\ reads[k].result # "NotFoundNone")
    => /\ outcome = "Ok"
       /\ \A k \in ShouldSelect(proc_tree) : proc_tree[k].pid \in PidsOf(nodes)

(***************************************************************************)
(* C5. What get_processes returns is decided by the tree, the regex and    *)
(* match_children: without a regex every enumerated node; with one, the    *)
(* nodes whose cmdline matches, plus (match_children) every transitive     *)
(* descendant of a matching node and nothing else; always as a subsequence *)
(* of the enumerated nodes in their order, each node at most once.         *)
(***************************************************************************)
C5_SelectorExact ==
    (pc = "done" /\ outcome = "Ok") =>
        /\ PidsOf(nodes) = {proc_tree[k].pid : k \in ShouldSelect(proc_tree)}
        /\ \A k \in DOMAIN nodes : nodes[k] = proc_tree[IndexOf(proc_tree, nodes[k].pid)]
        /\ \A a \in DOMAIN nodes, b \in DOMAIN nodes :
              a < b => IndexOf(proc_tree, nodes[a].pid) < IndexOf(proc_tree, nodes[b].pid)

\* three processes, the regex matches only the middle one: it and its child are
\* returned although the child does not match, its parent is left out
C5_Witness ==
    /\ pc = "done" /\ outcome = "Ok"
    /\ cfg.regex # NoRegex /\ cfg.match_children
    /\ Len(proc_tree) = 3 /\ Len(nodes) = 2
    /\ is_match(cfg.regex, nodes[1].cmdline)
    /\ ~is_match(cfg.regex, nodes[2].cmdline)
    /\ nodes[2].ppid = nodes[1].pid
    /\ nodes[1].ppid # 0

(***************************************************************************)
(* C9. As claimed: whenever an enumerated node has a parent pid that is    *)
(* neither 0 nor the pid of an enumerated node, get_processes ends in an   *)
(* unrecoverable failure, with or without a regex.                         *)
(***************************************************************************)
C9_MissingParentAlwaysFatal ==
    (pc = "done" /\ MissingParent(proc_tree)) => outcome # "Ok"

(***************************************************************************)
(* C9, amended. Once the enumeration has been collected: with a regex, an  *)
(* enumerated node whose parent pid is neither 0 nor the pid of an         *)
(* enumerated node makes get_processes panic and return nothing; without a *)
(* regex the tree is never linked and every enumerated node is returned.   *)
(***************************************************************************)
C9_MissingParentFatalWithRegex ==
    (pc = "done" /\ outcome # "Err" /\ MissingParent(proc_tree)) =>
        IF cfg.regex = NoRegex
        THEN outcome = "Ok" /\ nodes = proc_tree
        ELSE outcome = "Panic" /\ nodes = <<>>

\* the parent of an enumerated process vanished and was dropped with a warning
C9_Witness ==
    /\ pc = "done" /\ outcome = "Panic"
    /\ cfg.match_self
    /\ \E k \in DOMAIN reads, j \in DOMAIN proc_tree :
          /\ reads[k].result = "NotFoundSome"
          /\ proc_tree[j].ppid = reads[k].pid

(***************************************************************************)
(* C10. With match_self = false no node that get_processes collects or     *)
(* returns has the poller's own pid, whatever the regex and match_children *)
(* are; with match_self = true the poller's process is read and kept like  *)
(* any other.                                                               *)
(***************************************************************************)
C10_SelfExcluded ==
    /\ ~cfg.match_self => Me \notin PidsOf(nodes) \cup PidsOf(proc_tree)
    /\ cfg.match_self =>
          \A k \in DOMAIN reads :
              /\ reads[k].result # "Self"
              /\ (reads[k].pid = Me /\ reads[k].result = "Ok") => Me \in PidsOf(proc_tree)

\* the poller matches the regex and is the child of a selected process, yet is left out
C10_Witness ==
    /\ pc = "done" /\ outcome = "Ok"
    /\ ~cfg.match_self /\ cfg.regex # NoRegex /\ cfg.match_children
    /\ \E k \in DOMAIN reads : reads[k].pid = Me /\ reads[k].result = "Self"
    /\ \E k \in DOMAIN nodes : nodes[k].pid = snapshot[Me].ppid

(***************************************************************************)
(* Helpers of the get_smaps properties                                      *)
(***************************************************************************)
\* what a MemoryExt accounts for, every mapping once: the scalars and other_map
\* (file_map repeats what the four bin/lib scalars hold)
Weight(ext) == ScalarSum(ext) + SumValues(ext.other_map)

NotFoundReads == {k \in DOMAIN reads : reads[k].result \in {"NotFoundSome", "NotFoundNone"}}

DroppedPids == {reads[k].pid : k \in {j \in DOMAIN reads : reads[j].opt = "None"}}

RECURSIVE PidsInOrder(_, _)
PidsInOrder(seq, skip) ==
    IF seq = <<>> THEN <<>>
    ELSE IF Head(seq).pid \in skip THEN PidsInOrder(Tail(seq), skip)
    ELSE <<Head(seq).pid>> \o PidsInOrder(Tail(seq), skip)

(***************************************************************************)
(* C6. The PSS of a mapping with a tag get_smaps names is resolved in four *)
(* steps: Pss present - its value, no warning, whatever Rss is; else Rss   *)
(* present and zero - 0 and exactly one warning; else Rss present and not  *)
(* zero - the call panics and produces no listing; else neither field - 0  *)
(* and exactly one warning.                                                 *)
(***************************************************************************)
C6_PssFallback ==
    [][(nmaps' = nmaps + 1 /\ map'.pathname # "Unknown") =>
          LET e == map'.extension
              added == Weight(memory_ext') - Weight(memory_ext)
          IN  IF "Pss" \in DOMAIN e
              THEN outcome' = "Running" /\ added = e["Pss"] /\ warnings' = warnings
              ELSE IF "Rss" \in DOMAIN e /\ e["Rss"] = 0
              THEN outcome' = "Running" /\ added = 0 /\ warnings' = warnings + 1
              ELSE IF "Rss" \in DOMAIN e
              THEN outcome' = "Panic" /\ pc' = "done" /\ listings' = listings
              ELSE outcome' = "Running" /\ added = 0 /\ warnings' = warnings + 1]_vars

\* a heap mapping with Rss but no Pss ended the call without a listing
C6_Witness ==
    /\ outcome = "Panic" /\ pc = "done"
    /\ map.pathname = "Heap"
    /\ DOMAIN map.extension = {"Rss"}
    /\ listings = <<>>

(***************************************************************************)
(* C7. A process whose smaps or exe read reports not-found is left out of  *)
(* the listings with exactly one warning and without a fatal error, and    *)
(* the listings of all other processes are produced in input order, for    *)
(* both values of fail_on_noperm.                                           *)
(***************************************************************************)
C7_VanishedProcessDropped ==
    /\ \A k \in NotFoundReads :
          /\ reads[k].opt = "None"
          /\ reads[k].warned
          /\ reads[k].pid \notin PidsOf(listings)
    /\ nmaps = 0 => warnings = Cardinality(NotFoundReads)
    /\ (pc = "total" /\ NotFoundReads # {}) =>
          [k \in DOMAIN listings |-> listings[k].pid] = PidsInOrder(nodes, DroppedPids)

(***************************************************************************)
(* C8. As claimed: for every listing, the twelve scalars plus the values   *)
(* of file_map plus the values of other_map add up to the PSS resolved for *)
(* the mappings of the process that were categorized.                       *)
(***************************************************************************)
C8_ListingSumsToTotal ==
    \A k \in DOMAIN listings :
        LET ext == listings[k].memory_ext
        IN  ScalarSum(ext) + SumValues(ext.file_map) + SumValues(ext.other_map)
                = resolved[k].all

(***************************************************************************)
(* C8, amended. For every listing, the twelve scalars plus the values of   *)
(* file_map plus the values of other_map add up to the PSS resolved for    *)
(* the categorized mappings plus, once more, the PSS resolved for the      *)
(* file-backed ones: file_map repeats what the bin/lib scalars hold.       *)
(***************************************************************************)
C8_ListingSumsCountFilesTwice ==
    \A k \in DOMAIN listings :
        LET ext == listings[k].memory_ext
        IN  ScalarSum(ext) + SumValues(ext.file_map) + SumValues(ext.other_map)
                = resolved[k].all + resolved[k].file

\* a listing made of a file-backed mapping and another mapping, both with PSS
C8_Witness ==
    \E k \in DOMAIN listings :
        /\ resolved[k].file > 0
        /\ resolved[k].all > resolved[k].file
        /\ SumValues(listings[k].memory_ext.file_map) > 0

(***************************************************************************)
(* Helpers of the per-mapping properties                                    *)
(***************************************************************************)
\* the PSS a mapping resolves to when classification goes on: its Pss field,
\* or 0 when the field is missing
ResolvedPss(m) == IF "Pss" \in DOMAIN m.extension THEN m.extension["Pss"] ELSE 0

\* the category a mapping belongs to: "" for a region named by a label only
CategoryOf(m, exe_path) ==
    CASE m.pathname = "Heap" -> "heap_pss"
      [] m.pathname = "Stack" -> "stack_pss"
      [] m.pathname = "TStack" -> "thread_stack_pss"
      [] m.pathname = "Anonymous" -> "anon_map_pss"
      [] m.pathname = "Vdso" -> "vdso_pss"
      [] m.pathname = "Vvar" -> "vvar_pss"
      [] m.pathname = "Vsyscall" -> "vsyscall_pss"
      [] m.pathname = "Vsys" -> "vsys_pss"
      [] m.pathname = "Path" /\ m.name = exe_path /\ EXECUTE \in m.perms -> "bin_text_pss"
      [] m.pathname = "Path" /\ m.name = exe_path /\ EXECUTE \notin m.perms -> "bin_data_pss"
      [] m.pathname = "Path" /\ m.name # exe_path /\ EXECUTE \in m.perms -> "lib_text_pss"
      [] m.pathname = "Path" /\ m.name # exe_path /\ EXECUTE \notin m.perms -> "lib_data_pss"
      [] OTHER -> ""

\* new is old with pss added under key, every other key as it was
KeyBumped(old, new, key, pss) ==
    /\ DOMAIN new = DOMAIN old \cup {key}
    /\ new[key] = ValueAt(old, key) + pss
    /\ \A k \in DOMAIN old \ {key} : new[k] = old[k]

(***************************************************************************)
(* C11. Each mapping with a tag get_smaps names, once its PSS is resolved, *)
(* adds that PSS to exactly one scalar and leaves the other scalars alone: *)
(* heap, stack, thread stack, anonymous, vdso, vvar, vsyscall and vsys go  *)
(* to their own scalar; a file-backed mapping goes to bin_text (path is    *)
(* the executable's, execute set), bin_data (path is the executable's,     *)
(* execute not set), lib_text (other path, execute set) or lib_data, and   *)
(* adds the same PSS to file_map[(path, perms)]; a region named by a label *)
(* adds to other_map[label] only.                                           *)
(***************************************************************************)
C11_OneCategoryPerMapping ==
    [][(nmaps' = nmaps + 1 /\ map'.pathname # "Unknown" /\ outcome' = "Running") =>
          LET m == map'
              pss == ResolvedPss(m)
              category == CategoryOf(m, exe)
          IN  /\ \A f \in Scalars :
                    memory_ext'[f] = memory_ext[f] + (IF f = category THEN pss ELSE 0)
              /\ IF m.pathname = "Path"
                 THEN KeyBumped(memory_ext.file_map, memory_ext'.file_map,
                                <<m.name, m.perms>>, pss)
                 ELSE memory_ext'.file_map = memory_ext.file_map
              /\ IF m.pathname = "Other"
                 THEN /\ category = ""
                      /\ KeyBumped(memory_ext.other_map, memory_ext'.other_map, m.name, pss)
                 ELSE /\ category \in Scalars
                      /\ memory_ext'.other_map = memory_ext.other_map]_vars

\* an executable mapping of the process's own binary, with PSS, was counted as
\* bin_text and under its (path, perms) key, and nowhere else
C11_Witness ==
    /\ pc = "maps"
    /\ map.pathname = "Path" /\ map.name = exe /\ EXECUTE \in map.perms
    /\ ResolvedPss(map) > 0
    /\ memory_ext.bin_text_pss = ResolvedPss(map)
    /\ memory_ext.lib_text_pss = 0 /\ memory_ext.bin_data_pss = 0
    /\ memory_ext.lib_data_pss = 0
    /\ memory_ext.file_map = [k \in {<<map.name, map.perms>>} |-> ResolvedPss(map)]

(***************************************************************************)
(* C12. A mapping whose tag get_smaps does not name: when its Rss field is *)
(* zero or missing, exactly one warning is logged, no scalar and no keyed  *)
(* map changes, and the loop goes on with the next mapping; when its Rss   *)
(* is not zero the call panics and produces no listing, whether or not the *)
(* mapping has a Pss field.                                                 *)
(***************************************************************************)
C12_UnknownTagByRssOnly ==
    [][(nmaps' = nmaps + 1 /\ map'.pathname = "Unknown") =>
          LET e == map'.extension
          IN  IF "Rss" \in DOMAIN e /\ e["Rss"] # 0
              THEN /\ outcome' = "Panic"
                   /\ pc' = "done"
                   /\ listings' = listings
              ELSE /\ warnings' = warnings + 1
                   /\ memory_ext' = memory_ext
                   /\ outcome' = "Running"
                   /\ pc' = "maps"
                   /\ listings' = listings]_vars

\* a mapping with an unnamed tag, a Pss field and a non-zero Rss ended the call
\* after an earlier mapping with an unnamed tag had only been warned about
C12_Witness ==
    /\ outcome = "Panic" /\ pc = "done"
    /\ map.pathname = "Unknown"
    /\ "Pss" \in DOMAIN map.extension
    /\ map.extension["Rss"] # 0
    /\ nmaps = 2 /\ warnings = 1
    /\ memory_ext = MemoryExt_new
    /\ listings = <<>>

(***************************************************************************)
(* Helpers of the forest property                                           *)
(***************************************************************************)
\* how often index k stands in the children of node j
Occurrences(tree, j, k) ==
    Cardinality({i \in DOMAIN tree[j].children : tree[j].children[i] = k})

\* the nodes that list index k as a child
ParentsOf(tree, k) == {j \in DOMAIN tree : Occurrences(tree, j, k) > 0}

\* every node with a parent pid is listed once, by the node with that pid and
\* by no other; a node with parent pid 0 is listed nowhere
IsForest(tree) ==
    \A k \in DOMAIN tree :
        IF tree[k].ppid # 0
        THEN \E j \in DOMAIN tree :
                /\ ParentsOf(tree, k) = {j}
                /\ Occurrences(tree, j, k) = 1
                /\ tree[j].pid = tree[k].ppid
        ELSE ParentsOf(tree, k) = {}

UniquePids(tree) ==
    \A a \in DOMAIN tree, b \in DOMAIN tree : tree[a].pid = tree[b].pid => a = b

(***************************************************************************)
(* C13. As claimed: when get_processes has returned Ok for a tree with     *)
(* unique pids in which every parent pid other than 0 is the pid of a      *)
(* node, the children lists of the tree it worked on form a forest, with   *)
(* or without a regex.                                                      *)
(***************************************************************************)
C13_LinkedForestAlways ==
    (/\ pc = "done" /\ outcome = "Ok"
     /\ UniquePids(proc_tree) /\ ~MissingParent(proc_tree))
    => IsForest(proc_tree)

(***************************************************************************)
(* C13, amended. When get_processes has returned Ok for a tree with unique *)
(* pids in which every parent pid other than 0 is the pid of a node: with  *)
(* a regex the children lists of the tree form a forest; without a regex   *)
(* the tree is never linked, every children list is empty, and the nodes   *)
(* are returned that way.                                                   *)
(***************************************************************************)
C13_LinkedForestWithRegex ==
    (/\ pc = "done" /\ outcome = "Ok"
     /\ UniquePids(proc_tree) /\ ~MissingParent(proc_tree))
    => IF cfg.regex = NoRegex
       THEN /\ \A k \in DOMAIN proc_tree : proc_tree[k].children = <<>>
            /\ nodes = proc_tree
       ELSE IsForest(proc_tree)

\* three processes were linked, two of them children of the same parent
C13_Witness ==
    /\ pc = "done" /\ outcome = "Ok"
    /\ cfg.regex # NoRegex
    /\ Len(proc_tree) = 3
    /\ \E j \in DOMAIN proc_tree :
          /\ Len(proc_tree[j].children) = 2
          /\ proc_tree[j].ppid = 0

\* what the four bin/lib scalars hold together
BinLibSum(ext) ==
    ext.bin_text_pss + ext.bin_data_pss + ext.lib_text_pss + ext.lib_data_pss

(***************************************************************************)
(* C14. The file-backed detail map and the four bin/lib scalars count the  *)
(* same mappings, neither twice: for every listing, the values of file_map *)
(* add up to bin_text + bin_data + lib_text + lib_data, and the twelve     *)
(* scalars plus the values of other_map add up to the PSS resolved for the *)
(* mappings of the process that were not dropped as unclassifiable.        *)
(***************************************************************************)
C14_FileMapMirrorsBinLib ==
    \A k \in DOMAIN listings :
        LET ext == listings[k].memory_ext
        IN  /\ SumValues(ext.file_map) = BinLibSum(ext)
            /\ SumValues(ext.file_map) = resolved[k].file
            /\ ScalarSum(ext) + SumValues(ext.other_map) = resolved[k].all

\* a listing of two mappings of the same file with the same permissions, both
\* with PSS: one file_map entry holds what one bin/lib scalar holds
C14_Witness ==
    \E k \in DOMAIN listings :
        LET ext == listings[k].memory_ext
        IN  /\ Cardinality(DOMAIN ext.file_map) = 1
            /\ SumValues(ext.file_map) = 2
            /\ BinLibSum(ext) = 2
            /\ resolved[k].all = 2

====
